---- MODULE Spec2Model ----
(***************************************************************************)
(* Model of the IR layer of students/2014/zhirkov/vm/ir/ir.h: the basic    *)
(* block graph (Block, JumpAlways, JumpCond, Block::link), the ownership   *)
(* of expression nodes through std::shared_ptr members, and the visitor    *)
(* dispatch generated by IR_COMMON_FUNCTIONS.                              *)
(*                                                                         *)
(* Objects live in heaps that are sequences indexed by creation order; a   *)
(* pointer is an index into the heap and NULL is 0.                        *)
(***************************************************************************)
EXTENDS Integers, Sequences, FiniteSets, TLC

NULL == 0

\* Bounds of the model.
MaxBlocks == 2
MaxJumps == 2
MaxPreds == 4
MaxNodes == 3
NumElements == 2

VARIABLES
    transition,     \* Block::_transition of every block: a jump index or NULL
    predecessors,   \* Block::predecessors of every block: a sequence of blocks
    blockFreed,     \* how many times each block has been destroyed
    entries,        \* the blocks that are the entry member of a FunctionRecord
    jumps,          \* the Jump objects constructed so far
    jumpFreed,      \* how many times each jump has been destroyed
    call,           \* the most recent graph operation and its outcome
    nodes,          \* the Atom/Expression/Statement objects constructed so far
    nodeFreed,      \* how many times each node has been destroyed
    vNode,          \* the kind of the node of the most recent visit(), "none" before it
    vProduced,      \* what the visitor's handler produced in that visit
    vCalls,         \* the visitor operations invoked by that visit, in order
    vReturned       \* what that visit() returned to its caller

cfgVars == <<transition, predecessors, blockFreed, entries, jumps, jumpFreed, call>>
exprVars == <<nodes, nodeFreed>>
visitVars == <<vNode, vProduced, vCalls, vReturned>>
vars == <<transition, predecessors, blockFreed, entries, jumps, jumpFreed, call,
          nodes, nodeFreed, vNode, vProduced, vCalls, vReturned>>

----------------------------------------------------------------------------
(* Node kinds *)

\* FOR_IR: the closed list of concrete node kinds.
FOR_IR == <<"BinOp", "UnOp", "Variable", "Return", "Phi", "Int", "Double", "Ptr",
            "Block", "Assignment", "Call", "Print", "FunctionRecord",
            "JumpAlways", "JumpCond">>

IrKinds == {FOR_IR[i] : i \in 1..Len(FOR_IR)}

\* struct Atom : Expression and the structs deriving from it.
AtomKinds == {"Variable", "Int", "Double", "Ptr"}

\* struct Expression and the kinds the model builds that derive from it.
ExpressionKinds == AtomKinds \cup {"BinOp", "UnOp"}

----------------------------------------------------------------------------
(* Basic blocks and jumps *)

Blocks == 1..Len(transition)
Jumps == 1..Len(jumps)

\* push_back replaced by an insertion at the front.
PushFront(v, x) == <<x>> \o v

\* push_back dropped.
PushNothing(v, x) == v

\* std::vector::push_back
PushBack(v, x) == Append(v, x)

\* The record of a graph operation: the code's operations return void and
\* throw nothing, so err is "none" for every one of them.
Call(op, b, succ) == [op |-> op, block |-> b, succ |-> succ, err |-> "none"]

TotalPreds == LET RECURSIVE Sum(_)
                  Sum(i) == IF i = 0 THEN 0 ELSE Len(predecessors[i]) + Sum(i - 1)
              IN Sum(Len(predecessors))

\* Block::Block(name): _transition(NULL), predecessors empty.
NewBlock ==
    /\ Len(transition) < MaxBlocks
    /\ transition' = Append(transition, NULL)
    /\ predecessors' = Append(predecessors, <<>>)
    /\ blockFreed' = Append(blockFreed, 0)
    /\ call' = Call("newBlock", Len(transition) + 1, {})
    /\ UNCHANGED <<entries, jumps, jumpFreed, exprVars, visitVars>>

\* FunctionRecord::FunctionRecord(id, returnType): entry is a Block held by
\* value inside the record.
NewFunctionRecord ==
    /\ Len(transition) < MaxBlocks
    /\ transition' = Append(transition, NULL)
    /\ predecessors' = Append(predecessors, <<>>)
    /\ blockFreed' = Append(blockFreed, 0)
    /\ entries' = entries \cup {Len(transition) + 1}
    /\ call' = Call("newFunctionRecord", Len(transition) + 1, {})
    /\ UNCHANGED <<jumps, jumpFreed, exprVars, visitVars>>

\* JumpAlways::JumpAlways(dest): destination(dest), a shared_ptr<Block>
\* constructed from the raw pointer.
JumpAlways(dest) == [kind |-> "JumpAlways", destination |-> dest, yes |-> NULL, no |-> NULL]

\* JumpCond::JumpCond(yes, no, condition): yes and no are raw Block pointers.
JumpCond(yes, no) == [kind |-> "JumpCond", destination |-> NULL, yes |-> yes, no |-> no]

\* new JumpCond(yes, no, condition): the constructor stores whatever it is given.
NewJumpCond(yes, no) ==
    /\ Len(jumps) < MaxJumps
    /\ jumps' = Append(jumps, JumpCond(yes, no))
    /\ jumpFreed' = Append(jumpFreed, 0)
    /\ call' = Call("newJumpCond", NULL, {})
    /\ UNCHANGED <<transition, predecessors, blockFreed, entries, exprVars, visitVars>>

\* Block::link(JumpCond *cond) on block b.  A null yes or no is dereferenced
\* by the push_back and ends the program, so no step is taken for it.
LinkCond(b, j) ==
    /\ jumps[j].kind = "JumpCond"
    /\ jumps[j].yes # NULL /\ jumps[j].no # NULL
    /\ jumpFreed[j] = 0
    /\ blockFreed[b] = 0 /\ blockFreed[jumps[j].yes] = 0 /\ blockFreed[jumps[j].no] = 0
    /\ TotalPreds + 2 <= MaxPreds
    /\ transition' = [transition EXCEPT ![b] = j]
    /\ LET afterYes == [predecessors EXCEPT ![jumps[j].yes] = PushBack(@, b)]
       IN predecessors' = [afterYes EXCEPT ![jumps[j].no] = PushBack(@, b)]
    /\ call' = Call("link", b, {jumps[j].yes, jumps[j].no})
    /\ UNCHANGED <<blockFreed, entries, jumps, jumpFreed, exprVars, visitVars>>

\* Block::link(Block *next) on block b.
LinkBlock(b, next) ==
    /\ Len(jumps) < MaxJumps
    /\ blockFreed[b] = 0 /\ blockFreed[next] = 0
    /\ TotalPreds + 1 <= MaxPreds
    /\ jumps' = Append(jumps, JumpAlways(next))
    /\ jumpFreed' = Append(jumpFreed, 0)
    /\ transition' = [transition EXCEPT ![b] = Len(jumps) + 1]
    /\ predecessors' = [predecessors EXCEPT ![next] = PushBack(@, b)]
    /\ call' = Call("link", b, {next})
    /\ UNCHANGED <<blockFreed, entries, exprVars, visitVars>>

Bump(f, x) == [f EXCEPT ![x] = IF @ < 2 THEN @ + 1 ELSE @]

\* delete of a Jump (Jump::~Jump is virtual).  A JumpAlways destroys its
\* shared_ptr<Block> destination, which is the only owner it knows of and so
\* deletes the block; a JumpCond holds raw pointers and deletes no block.
DestroyJump(j) ==
    /\ jumpFreed[j] = 0
    /\ jumpFreed' = Bump(jumpFreed, j)
    /\ blockFreed' = IF jumps[j].kind = "JumpAlways" /\ jumps[j].destination # NULL
                     THEN Bump(blockFreed, jumps[j].destination)
                     ELSE blockFreed
    /\ call' = Call("destroyJump", NULL, {})
    /\ UNCHANGED <<transition, predecessors, entries, jumps, exprVars, visitVars>>

\* Block::getTransition and the blocks the transition names.
JumpTargets(jump) ==
    IF jump.kind = "JumpAlways" THEN {jump.destination} ELSE {jump.yes, jump.no}

Successors(b) ==
    IF transition[b] = NULL THEN {} ELSE JumpTargets(jumps[transition[b]])

Count(x, s) == Cardinality({i \in 1..Len(s) : s[i] = x})

Init ==
    /\ transition = <<>>
    /\ predecessors = <<>>
    /\ blockFreed = <<>>
    /\ entries = {}
    /\ jumps = <<>>
    /\ jumpFreed = <<>>
    /\ call = Call("none", NULL, {})
    /\ nodes = <<>>
    /\ nodeFreed = <<>>
    /\ vNode = "none"
    /\ vProduced = NULL
    /\ vCalls = <<>>
    /\ vReturned = NULL

Next ==
    \/ NewBlock
    \/ \E yes, no \in Blocks \cup {NULL} : NewJumpCond(yes, no)
    \/ \E b \in Blocks, j \in Jumps : LinkCond(b, j)
    \/ \E b, next \in Blocks : LinkBlock(b, next)

Spec == Init /\ [][Next]_vars

NextLife ==
    \/ NewBlock
    \/ NewFunctionRecord
    \/ \E yes, no \in Blocks \cup {NULL} : NewJumpCond(yes, no)
    \/ \E b \in Blocks, j \in Jumps : LinkCond(b, j)
    \/ \E b, next \in Blocks : LinkBlock(b, next)
    \/ \E j \in Jumps : DestroyJump(j)

SpecLife == Init /\ [][NextLife]_vars

----------------------------------------------------------------------------
(* Properties of the block graph *)

IsPrefix(s, t) == Len(s) <= Len(t) /\ \A i \in 1..Len(s) : s[i] = t[i]

\* A step of Spec or SpecLife that is a call of Block::link.
LinkStep == call'.op = "link"

\* C1: the predecessor lists are exactly the inverse of the current
\* transition edges: b is in t.predecessors iff b's transition names t.
C1_PredecessorsExactInverse ==
    \A b \in Blocks, t \in Blocks :
        (Count(b, predecessors[t]) > 0) <=> (t \in Successors(b))

\* C2: link on a block whose transition is already set fails with
\* AlreadyLinked and leaves that transition and every predecessors list as
\* they were.
C2_RelinkFailsAlreadyLinked ==
    [][(LinkStep /\ transition[call'.block] # NULL)
         => /\ call'.err = "AlreadyLinked"
            /\ transition'[call'.block] = transition[call'.block]
            /\ predecessors' = predecessors]_vars

C3_State ==
    \A b \in Blocks :
        (transition[b] # NULL /\ jumps[transition[b]].kind = "JumpCond")
          => /\ Count(b, predecessors[jumps[transition[b]].yes]) = 1
             /\ Count(b, predecessors[jumps[transition[b]].no]) = 1

C3_Step ==
    (LinkStep /\ jumps'[transition'[call'.block]].kind = "JumpCond")
      => \A t \in Blocks :
            predecessors'[t] # predecessors[t]
              => t \in {jumps'[transition'[call'.block]].yes,
                        jumps'[transition'[call'.block]].no}

\* C3: a block b whose transition is a conditional jump to (yes, no) occurs
\* exactly once in yes.predecessors and exactly once in no.predecessors, and
\* the link added b to no other block's predecessors.
C3_CondLinkedExactlyOnce == []C3_State /\ [][C3_Step]_vars

C4_State ==
    \A b \in Blocks :
        (transition[b] # NULL /\ jumps[transition[b]].kind = "JumpAlways")
          => /\ jumps[transition[b]].destination \in Blocks
             /\ Count(b, predecessors[jumps[transition[b]].destination]) = 1

C4_Step ==
    \A t \in Blocks :
        (predecessors[t] = <<>> /\ predecessors'[t] # <<>>)
          => (LinkStep /\ t \in call'.succ)

\* C4: a block b whose transition is an unconditional jump to t occurs
\* exactly once in t.predecessors, the transition is a JumpAlways whose
\* destination is t, and the predecessors of a block stay empty until some
\* link names it.
C4_AlwaysLinkedExactlyOnce == []C4_State /\ [][C4_Step]_vars

\* C7: destroying a jump destroys none of the blocks it refers to, and no
\* block is ever destroyed twice.
C7_JumpDestructionSparesBlocks ==
    /\ \A j \in Jumps :
          jumpFreed[j] > 0
            => \A t \in JumpTargets(jumps[j]) \ {NULL} :
                  blockFreed[t] = 0
    /\ \A b \in Blocks : blockFreed[b] <= 1

\* C9: every predecessors list only grows by appending at its end, a new
\* block starts with an empty list, and a link changes the list of no block
\* other than the successors it names.
C9_PredecessorsAppendOnly ==
    [][/\ \A t \in Blocks :
             /\ IsPrefix(predecessors[t], predecessors'[t])
             /\ predecessors'[t] # predecessors[t]
                  => /\ LinkStep
                     /\ t \in call'.succ
                     /\ t \in JumpTargets(jumps'[transition'[call'.block]])
                     /\ predecessors'[t][Len(predecessors'[t])] = call'.block
       /\ \A t \in (1..Len(predecessors')) \ Blocks : predecessors'[t] = <<>>]_vars

\* A list that grew twice, by two different blocks, next to a list no link named.
C9_Witness ==
    \E t, u \in Blocks :
        /\ Len(predecessors[t]) >= 2
        /\ predecessors[t][1] # predecessors[t][2]
        /\ predecessors[u] = <<>>

\* C10: every current transition edge has its back-reference, and a block
\* whose transition is still null occurs in no predecessors list.
C10_PredecessorsCoverEdges ==
    \A b \in Blocks :
        /\ \A t \in Successors(b) : t \in Blocks /\ Count(b, predecessors[t]) >= 1
        /\ transition[b] = NULL => \A t \in Blocks : Count(b, predecessors[t]) = 0

\* A block linked twice, whose first successor keeps a stale entry, next to a
\* block that is still unlinked.
C10_Witness ==
    \E b, t, u \in Blocks :
        /\ transition[b] # NULL
        /\ t \notin Successors(b)
        /\ Count(b, predecessors[t]) >= 1
        /\ transition[u] = NULL

----------------------------------------------------------------------------
(* Expression and statement nodes *)

Nodes == 1..Len(nodes)

\* A node: its kind and its shared_ptr members in declaration order
\* (BinOp: left, right; UnOp: operand; Assignment: value; Return, Print: atom).
Node(kind, ops) == [kind |-> kind, ops |-> ops]

\* The live nodes a caller can pass where an Expression const* is expected.
ExpressionRefs == {n \in Nodes : nodes[n].kind \in ExpressionKinds /\ nodeFreed[n] = 0}

\* The live nodes a caller can pass where an Atom const* is expected.
AtomRefs == {n \in Nodes : nodes[n].kind \in AtomKinds /\ nodeFreed[n] = 0}

\* The constructors only copy their arguments into the members.
Construct(kind, ops) ==
    /\ Len(nodes) < MaxNodes
    /\ nodes' = Append(nodes, Node(kind, ops))
    /\ nodeFreed' = Append(nodeFreed, 0)
    /\ UNCHANGED <<cfgVars, visitVars>>

\* Variable::Variable(id), Int::Int(value), Double::Double(value),
\* Ptr::Ptr(value, isPooledString).
NewAtom(kind) == Construct(kind, <<>>)

\* BinOp::BinOp(left, right, type)
NewBinOp(left, right) == Construct("BinOp", <<left, right>>)

\* UnOp::UnOp(operand, type)
NewUnOp(operand) == Construct("UnOp", <<operand>>)

\* Assignment::Assignment(var, expr)
NewAssignment(expr) == Construct("Assignment", <<expr>>)

\* Return::Return(atom)
NewReturn(atom) == Construct("Return", <<atom>>)

\* Print::Print(atom)
NewPrint(atom) == Construct("Print", <<atom>>)

\* The nodes that have n among their members.
Holders(n) == {h \in Nodes : \E i \in 1..Len(nodes[h].ops) : nodes[h].ops[i] = n}

\* The destructor of node n: its shared_ptr members are destroyed in reverse
\* declaration order.  Every member was constructed from a raw pointer, so it
\* has a control block of its own with a use count of 1, and its destructor
\* deletes the node it points to through an Expression const* or Atom const*.
\* Those classes have no virtual destructor, so whether the deleted node's own
\* members are destroyed in turn (deep) is not defined.
RECURSIVE DestroyMembers(_, _, _, _)
DestroyMembers(f, n, i, deep) ==
    IF i = 0 THEN f
    ELSE LET p == nodes[n].ops[i]
             f1 == IF p = NULL THEN f ELSE Bump(f, p)
             f2 == IF p # NULL /\ deep
                   THEN DestroyMembers(f1, p, Len(nodes[p].ops), deep)
                   ELSE f1
         IN DestroyMembers(f2, n, i - 1, deep)

\* The owner of a live node that nothing holds destroys it.
DestroyNode(n, deep) ==
    /\ nodeFreed[n] = 0
    /\ Holders(n) = {}
    /\ nodeFreed' = DestroyMembers(Bump(nodeFreed, n), n, Len(nodes[n].ops), deep)
    /\ UNCHANGED <<nodes, cfgVars, visitVars>>

NextExpr ==
    \/ \E kind \in AtomKinds : NewAtom(kind)
    \/ \E left, right \in ExpressionRefs \cup {NULL} : NewBinOp(left, right)
    \/ \E operand \in ExpressionRefs \cup {NULL} : NewUnOp(operand)
    \/ \E expr \in ExpressionRefs \cup {NULL} : NewAssignment(expr)
    \/ \E atom \in AtomRefs \cup {NULL} : NewReturn(atom)
    \/ \E atom \in AtomRefs \cup {NULL} : NewPrint(atom)
    \/ \E n \in Nodes, deep \in BOOLEAN : DestroyNode(n, deep)

SpecExpr == Init /\ [][NextExpr]_vars

\* C5: no construction leaves a node that holds a null required operand.
C5_NoNullOperand ==
    \A n \in Nodes : \A i \in 1..Len(nodes[n].ops) : nodes[n].ops[i] # NULL

\* C8: a node is destroyed at most once, and never while a live holder still
\* refers to it.
C8_SharedNodeOutlivesHolders ==
    \A n \in Nodes :
        /\ nodeFreed[n] <= 1
        /\ (\E h \in Holders(n) : nodeFreed[h] = 0) => nodeFreed[n] = 0

----------------------------------------------------------------------------
(* Visitor dispatch *)

\* What a visitor operation can produce: no element, or one of the elements.
Elements == 0..NumElements

\* IR_COMMON_FUNCTIONS(ir) is expanded inside struct ir, so `this` in its
\* visit() is a const ir*.
ThisType(kind) == kind

\* IrVisitor declares one visit(const ir *const) per kind of FOR_IR; overload
\* resolution on the static type of the argument selects among them.
VisitorOverload(type) == CHOOSE handler \in IrKinds : handler = type

\* ir::visit(v) const { v->visit(this); } -- the handler runs once and produces
\* an element, but the body has no return statement: what the caller receives
\* from the non-void function is not defined.
Visit(kind, produced) ==
    /\ vNode' = kind
    /\ vProduced' = produced
    /\ vCalls' = <<VisitorOverload(ThisType(kind))>>
    /\ vReturned' \in Elements
    /\ UNCHANGED <<cfgVars, exprVars>>

NextVisit == \E kind \in IrKinds, produced \in Elements : Visit(kind, produced)

SpecVisit == Init /\ [][NextVisit]_vars

\* C6: visit on a node of kind K invokes exactly the visitor operation for K,
\* once, and returns what that operation produced.
C6_VisitRoutesAndReturns ==
    vNode # "none" => (vCalls = <<vNode>> /\ vReturned = vProduced)
====
